---- MODULE Spec2Model ----
(***************************************************************************)
(* Model of src/main.py: the Kraken screener sentiment updater.            *)
(*                                                                         *)
(* Strings are sequences of one-character strings.  Sentiment scores are   *)
(* integers in units of 1e-4 (the code rounds every score to 4 decimal     *)
(* places).  Python's None and the empty sheet cell "" are the empty       *)
(* sequence <<>>; a defined score s is <<s>>.                              *)
(***************************************************************************)
EXTENDS Integers, Sequences, FiniteSets, TLC

\* ------------------------------------------------------------------ bounds
\* Number of cells of column A below the header row.
MaxRows == 2
\* Number of articles a provider response may carry.
MaxArticles == 2
\* Length of the raw ticker strings normalize_ticker_for_news is applied to.
MaxTickerLen == 4

\* --------------------------------------------------------------- constants
\* int(os.getenv("MAX_ARTICLES_PER_TICKER", "20")) and
\* int(os.getenv("CRYPTONEWS_MAX_ITEMS_PER_TICKER", "20")): the run modelled
\* here has both set to 1 in its environment.
MAX_ARTICLES_PER_TICKER == 1

CRYPTONEWS_MAX_ITEMS_PER_TICKER == 1

\* ----------------------------------------------------------------- strings
Alphabet == {"a", "B", "/", "-"}

Whitespace == {" "}

RECURSIVE StringsUpTo(_)
StringsUpTo(n) ==
    IF n = 0 THEN {<<>>}
    ELSE LET shorter == StringsUpTo(n - 1)
         IN  shorter \cup {Append(s, c) : s \in {t \in shorter : Len(t) = n - 1}, c \in Alphabet}

\* str.upper()
UpperChar(c) == IF c = "a" THEN "A" ELSE c

Upper(s) == [i \in 1..Len(s) |-> UpperChar(s[i])]

\* str.strip()
RECURSIVE LStrip(_)
LStrip(s) == IF s # <<>> /\ Head(s) \in Whitespace THEN LStrip(Tail(s)) ELSE s

RECURSIVE RStrip(_)
RStrip(s) == IF s # <<>> /\ s[Len(s)] \in Whitespace
             THEN RStrip(SubSeq(s, 1, Len(s) - 1)) ELSE s

Strip(s) == RStrip(LStrip(s))

\* sep in t
Contains(t, sep) == \E i \in 1..Len(t) : t[i] = sep

\* t.split(sep)[0]
RECURSIVE SplitFirst(_, _)
SplitFirst(t, sep) ==
    IF t = <<>> \/ Head(t) = sep THEN <<>>
    ELSE <<Head(t)>> \o SplitFirst(Tail(t), sep)

\* The same function with the second test written as an elif.
normalize_elif(ticker) ==
    LET t == Upper(ticker)
    IN  IF Contains(t, "/") THEN SplitFirst(t, "/")
        ELSE IF Contains(t, "-") THEN SplitFirst(t, "-")
        ELSE t

normalize_ticker_for_news(ticker) ==
    LET t  == Upper(ticker)
        t1 == IF Contains(t, "/") THEN SplitFirst(t, "/") ELSE t
        t2 == IF Contains(t1, "-") THEN SplitFirst(t1, "-") ELSE t1
    IN  t2

\* ------------------------------------------------------------- JSON values
None == <<>>

Some(x) == <<x>>

\* A JSON field value: absent/null, a string, or a number.
FNone == [t |-> "none", s |-> <<>>]

FStr(s) == [t |-> "str", s |-> s]

FNum == [t |-> "num", s |-> <<>>]

\* Python truthiness of a field value (None, "" are falsy; the number is 5).
Truthy(f) == f.t = "num" \/ (f.t = "str" /\ f.s # <<>>)

\* a or b
Or(a, b) == IF Truthy(a) THEN a ELSE b

\* An article of the Finnhub company-news list: a JSON object with the two
\* fields the code reads, or a JSON value that is no object.
FinnhubArticle(h, s) == [t |-> "obj", headline |-> h, summary |-> s]

FinnhubNonObject == [t |-> "num", headline |-> FNone, summary |-> FNone]

\* An article of the CryptoNews "data" list.
CryptoNewsArticle(ti, nt, tx, co) ==
    [t |-> "obj", title |-> ti, news_title |-> nt, text |-> tx, content |-> co]

CryptoNewsNonObject ==
    [t |-> "num", title |-> FNone, news_title |-> FNone, text |-> FNone, content |-> FNone]

\* A parsed response body: resp.json() failing, a top-level list, or a top-level
\* object whose "data" member is absent, a string or a list.
Body(t, data_t, items) == [t |-> t, data_t |-> data_t, items |-> items]

NoBody == Body("badjson", "none", <<>>)

\* What session.get gives: an exception, or a response with a status and a body;
\* url is the endpoint that was asked.
Response(url, raised, status_code, body) ==
    [url |-> url, raised |-> raised, status_code |-> status_code, body |-> body]

NoResp == Response("none", FALSE, 0, NoBody)

SeqsUpTo(S, n) == UNION {[1..k -> S] : k \in 0..n}

FinnhubArticlePool ==
    { FinnhubArticle(FStr(<<"b">>), FNone),
      FinnhubArticle(FStr(<<" ">>), FStr(<<>>)),
      FinnhubArticle(FNum, FStr(<<"b">>)),
      FinnhubNonObject }

CryptoNewsArticlePool ==
    { CryptoNewsArticle(FNone, FStr(<<"g">>), FStr(<<>>), FStr(<<"g">>)),
      CryptoNewsArticle(FStr(<<"g">>), FNone, FNum, FNone),
      CryptoNewsNonObject }

\* What the network and the two providers may answer: a transport failure,
\* 429, 403, and 200 with a body that is no JSON, has the wrong top-level
\* type, or is a list of at most MaxArticles pool articles.
ResponsesOf(url, bodies) ==
    { Response(url, TRUE, 0, NoBody), Response(url, FALSE, 429, NoBody),
      Response(url, FALSE, 403, NoBody) }
    \cup { Response(url, FALSE, 200, b) : b \in bodies }

FinnhubResponses ==
    ResponsesOf("finnhub",
        { NoBody, Body("dict", "none", <<>>) }
        \cup { Body("list", "none", items) : items \in SeqsUpTo(FinnhubArticlePool, MaxArticles) })

CryptoNewsResponses ==
    ResponsesOf("cryptonews",
        { NoBody, Body("dict", "none", <<>>), Body("dict", "str", <<>>), Body("list", "none", <<>>) }
        \cup { Body("dict", "list", items) :
                 items \in SeqsUpTo(CryptoNewsArticlePool, MaxArticles) })

\* ------------------------------------------------------------------ scoring
\* analyzer.polarity_scores(text)["compound"], in units of 1e-4: the lexicon
\* scorer is a black box, here decided by the marker words "g" and "b".
Compound(text) ==
    IF Contains(text, "b") THEN -3000 ELSE IF Contains(text, "g") THEN 5000 ELSE 0

\* round(n / d, 4) for n in units of 1e-4: nearest integer, ties to even.
RoundDiv(n, d) ==
    LET q == n \div d
        r == n % d
    IN  IF 2 * r < d THEN q
        ELSE IF 2 * r > d THEN q + 1
        ELSE IF q % 2 = 0 THEN q ELSE q + 1

RECURSIVE SumSeq(_)
SumSeq(s) == IF s = <<>> THEN 0 ELSE Head(s) + SumSeq(Tail(s))

\* (x or "").strip(): a truthy number has no strip().
StripField(f) ==
    LET v == Or(f, FStr(<<>>))
    IN  [raised |-> v.t # "str", s |-> IF v.t = "str" THEN Strip(v.s) ELSE <<>>]

\* The text the loop body builds for one article, or the AttributeError it raises.
ArticleText(provider, article) ==
    IF article.t # "obj" THEN [raised |-> TRUE, text |-> <<>>]
    ELSE LET first  == IF provider = "finnhub"
                       THEN StripField(article.headline)
                       ELSE StripField(Or(article.title, article.news_title))
             second == IF provider = "finnhub"
                       THEN StripField(article.summary)
                       ELSE StripField(Or(article.text, article.content))
         IN  IF first.raised \/ second.raised THEN [raised |-> TRUE, text |-> <<>>]
             ELSE [raised |-> FALSE, text |-> Strip(first.s \o <<".", " ">> \o second.s)]

\* The for loop over the articles: the list of compounds, or the exception.
RECURSIVE Compounds(_, _)
Compounds(provider, articles) ==
    IF articles = <<>> THEN [raised |-> FALSE, compounds |-> <<>>]
    ELSE LET tx == ArticleText(provider, Head(articles))
         IN  IF tx.raised THEN [raised |-> TRUE, compounds |-> <<>>]
             ELSE LET rest == Compounds(provider, Tail(articles))
                      mine == IF tx.text = <<>> THEN <<>> ELSE <<Compound(tx.text)>>
                  IN  IF rest.raised THEN rest
                      ELSE [raised |-> FALSE, compounds |-> mine \o rest.compounds]

\* What a source function returns: (score, count), or an uncaught exception.
Result(score, count) == [raised |-> FALSE, score |-> score, count |-> count]

NoData == Result(None, 0)

Raised == [raised |-> TRUE, score |-> None, count |-> 0]

\* The tail of both source functions, from the scoring loop to the return.
ScoreArticles(provider, articles) ==
    LET c == Compounds(provider, articles)
    IN  IF c.raised THEN Raised
        ELSE IF c.compounds = <<>> THEN NoData
        ELSE Result(Some(RoundDiv(SumSeq(c.compounds), Len(c.compounds))), Len(c.compounds))

\* articles[:MAX_ARTICLES_PER_TICKER]
Truncate(articles, limit) ==
    SubSeq(articles, 1, IF Len(articles) < limit THEN Len(articles) ELSE limit)

\* Finnhub, after the retry loop: resp.raise_for_status(), resp.json(), the
\* list test, the cap and the scoring.
FinnhubScore(r) ==
    IF r.raised \/ r.status_code >= 400 \/ r.body.t = "badjson" THEN NoData
    ELSE IF r.body.t # "list" \/ r.body.items = <<>> THEN NoData
    ELSE ScoreArticles("finnhub", Truncate(r.body.items, MAX_ARTICLES_PER_TICKER))

\* CryptoNews, from the response to the return: no retry, no cap on the list.
CryptoNewsScore(r) ==
    IF r.raised \/ r.status_code # 200 \/ r.body.t = "badjson" THEN NoData
    ELSE IF r.body.t # "dict" THEN Raised
    ELSE IF r.body.data_t # "list" \/ r.body.items = <<>> THEN NoData
    ELSE ScoreArticles("cryptonews", r.body.items)

\* ----------------------------------------------------------------- combine
\* The combine step with the CryptoNews term weighted by 1 instead of its count.
CombineUnweighted(f, c) ==
    LET fin == f.score # None /\ f.count > 0
        cry == c.score # None /\ c.count > 0
        total_count  == (IF fin THEN f.count ELSE 0) + (IF cry THEN c.count ELSE 0)
        weighted_sum == (IF fin THEN f.score[1] * f.count ELSE 0)
                        + (IF cry THEN c.score[1] ELSE 0)
    IN  IF total_count = 0 THEN NoData
        ELSE Result(Some(RoundDiv(weighted_sum, total_count)), total_count)

\* compute_combined_sentiment_for_ticker, from total_count = 0 to the return.
Combine(f, c) ==
    LET fin == f.score # None /\ f.count > 0
        cry == c.score # None /\ c.count > 0
        total_count  == (IF fin THEN f.count ELSE 0) + (IF cry THEN c.count ELSE 0)
        weighted_sum == (IF fin THEN f.score[1] * f.count ELSE 0)
                        + (IF cry THEN c.score[1] * c.count ELSE 0)
    IN  IF total_count = 0 THEN NoData
        ELSE Result(Some(RoundDiv(weighted_sum, total_count)), total_count)

\* -------------------------------------------------------------------- state
VARIABLES
    col_a,              \* worksheet.col_values(1): the header cell, then the ticker cells
    finnhub_api_key,    \* os.getenv("FINNHUB_API_KEY")
    cryptonews_token,   \* os.getenv("CRYPTONEWS_API_TOKEN")
    pc,                 \* where the run is
    header_written,     \* P1:R1 hold HEADER_COLUMNS
    sheet,              \* P:R cells of rows 2.., <<>> where nothing was written
    tickers,            \* main: tickers
    idx,                \* main: position of the for loop in tickers
    ticker,             \* main: ticker
    rows_to_write,      \* main: rows_to_write
    now,                \* the clock the timestamps are read from
    symbol_for_news,    \* the source functions' symbol_for_news
    attempt,            \* Finnhub: attempt
    resp,               \* the source functions' resp
    http_calls,         \* session.get calls made by the running source function
    sleeps,             \* time.sleep calls made by the running source function
    requested,          \* the (provider, symbol) pairs requests were sent for
    finnhub_result,     \* (finnhub_score, finnhub_count)
    cryptonews_result   \* (cryptonews_score, cryptonews_count)

vars == <<col_a, finnhub_api_key, cryptonews_token, pc, header_written, sheet, tickers,
          idx, ticker, rows_to_write, now, symbol_for_news, attempt, resp, http_calls,
          sleeps, requested, finnhub_result, cryptonews_result>>

Header == <<"T">>

\* What a ticker cell of column A may hold: nothing, " a/B", "B-a".
CellPool == { <<>>, <<" ", "a", "/", "B">>, <<"B", "-", "a">> }

\* col_values returns no trailing empty cells.
ColumnAValues ==
    {<<>>} \cup { <<Header>> \o cells : cells \in
                    { c \in SeqsUpTo(CellPool, MaxRows) : c = <<>> \/ c[Len(c)] # <<>> } }

EnvValues == { None, <<"k">> }

SheetRows == 2..(MaxRows + 1)

\* One element of rows_to_write; ticker records the loop variable the row was
\* appended for (the code keeps the position only).
Row(score, count, timestamp, tk) ==
    [score |-> score, count |-> count, timestamp |-> timestamp, ticker |-> tk]

Idle ==
    /\ header_written = FALSE
    /\ sheet = [r \in SheetRows |-> <<>>]
    /\ tickers = <<>>
    /\ idx = 1
    /\ rows_to_write = <<>>
    /\ now = 0
    /\ symbol_for_news = <<>>
    /\ attempt = 0
    /\ resp = NoResp
    /\ http_calls = 0
    /\ sleeps = 0
    /\ requested = {}
    /\ finnhub_result = NoData
    /\ cryptonews_result = NoData

Init ==
    /\ col_a \in ColumnAValues
    /\ finnhub_api_key \in EnvValues
    /\ cryptonews_token \in EnvValues
    /\ pc = "start"
    /\ ticker = <<>>
    /\ Idle

\* ------------------------------------------------------------------- main()
get_tickers(col) ==
    IF col = <<>> THEN <<>>
    ELSE LET kept == SelectSeq(Tail(col), LAMBDA v : Strip(v) # <<>>)
         IN  [i \in 1..Len(kept) |-> Upper(Strip(kept[i]))]

EnsureHeaders ==
    /\ pc = "start"
    /\ header_written' = TRUE
    /\ pc' = "get_tickers"
    /\ UNCHANGED <<col_a, finnhub_api_key, cryptonews_token, sheet, tickers, idx, ticker,
                   rows_to_write, now, symbol_for_news, attempt, resp, http_calls, sleeps,
                   requested, finnhub_result, cryptonews_result>>

GetTickers ==
    /\ pc = "get_tickers"
    /\ tickers' = get_tickers(col_a)
    /\ pc' = IF tickers' = <<>> THEN "done" ELSE "check_credentials"
    /\ UNCHANGED <<col_a, finnhub_api_key, cryptonews_token, header_written, sheet, idx,
                   ticker, rows_to_write, now, symbol_for_news, attempt, resp, http_calls,
                   sleeps, requested, finnhub_result, cryptonews_result>>

\* The two tests with the CryptoNews one left out.
FinnhubKeyOnly(key, token) == key # <<>>

\* not finnhub_api_key / not cryptonews_token: None and "" are both missing.
CredentialsPresent(key, token) == key # <<>> /\ token # <<>>

CheckCredentials ==
    /\ pc = "check_credentials"
    /\ pc' = IF CredentialsPresent(finnhub_api_key, cryptonews_token) THEN "loop" ELSE "fatal"
    /\ UNCHANGED <<col_a, finnhub_api_key, cryptonews_token, header_written, sheet, tickers,
                   idx, ticker, rows_to_write, now, symbol_for_news, attempt, resp,
                   http_calls, sleeps, requested, finnhub_result, cryptonews_result>>

\* The head of the for loop and the entry of compute_finnhub_sentiment_for_ticker.
BeginTicker ==
    /\ pc = "loop"
    /\ idx <= Len(tickers)
    /\ ticker' = tickers[idx]
    /\ symbol_for_news' = normalize_ticker_for_news(tickers[idx])
    /\ attempt' = 0
    /\ http_calls' = 0
    /\ sleeps' = 0
    /\ resp' = NoResp
    /\ finnhub_result' = NoData
    /\ cryptonews_result' = NoData
    /\ pc' = "fh_get"
    /\ UNCHANGED <<col_a, finnhub_api_key, cryptonews_token, header_written, sheet, tickers,
                   idx, rows_to_write, now, requested>>

\* session.get(url, params=params, timeout=10) of the Finnhub loop.
FinnhubGet ==
    /\ pc = "fh_get"
    /\ \E r \in FinnhubResponses : resp' = r
    /\ http_calls' = http_calls + 1
    /\ requested' = requested \cup {<<"finnhub", symbol_for_news>>}
    /\ pc' = "fh_resp"
    /\ UNCHANGED <<col_a, finnhub_api_key, cryptonews_token, header_written, sheet, tickers,
                   idx, ticker, rows_to_write, now, symbol_for_news, attempt, sleeps,
                   finnhub_result, cryptonews_result>>

\* The rest of the loop body, and the function's tail when the loop breaks.
FinnhubHandle ==
    /\ pc = "fh_resp"
    /\ IF ~resp.raised /\ resp.status_code = 429
       THEN /\ pc' = "fh_sleep"
            /\ UNCHANGED finnhub_result
       ELSE LET res == FinnhubScore(resp)
            IN  IF res.raised
                THEN /\ pc' = "crashed"
                     /\ UNCHANGED finnhub_result
                ELSE /\ pc' = "cn_get"
                     /\ finnhub_result' = res
    /\ UNCHANGED <<col_a, finnhub_api_key, cryptonews_token, header_written, sheet, tickers,
                   idx, ticker, rows_to_write, now, symbol_for_news, attempt, resp,
                   http_calls, sleeps, requested, cryptonews_result>>

\* range(3)
InRange3(a) == a < 3

\* for attempt in range(2)
InRange(a) == a < 2

\* time.sleep(wait_secs); continue -- and the loop's else clause when it runs out.
FinnhubSleep ==
    /\ pc = "fh_sleep"
    /\ sleeps' = sleeps + 1
    /\ attempt' = attempt + 1
    /\ IF InRange(attempt + 1)
       THEN /\ pc' = "fh_get"
            /\ UNCHANGED finnhub_result
       ELSE /\ pc' = "cn_get"
            /\ finnhub_result' = NoData
    /\ UNCHANGED <<col_a, finnhub_api_key, cryptonews_token, header_written, sheet, tickers,
                   idx, ticker, rows_to_write, now, symbol_for_news, resp, http_calls,
                   requested, cryptonews_result>>

\* Entry of compute_cryptonews_sentiment_for_ticker and its one session.get.
CryptoNewsGet ==
    /\ pc = "cn_get"
    /\ \E r \in CryptoNewsResponses : resp' = r
    /\ symbol_for_news' = normalize_ticker_for_news(ticker)
    /\ http_calls' = 1
    /\ sleeps' = 0
    /\ attempt' = 0
    /\ requested' = requested \cup {<<"cryptonews", normalize_ticker_for_news(ticker)>>}
    /\ pc' = "cn_resp"
    /\ UNCHANGED <<col_a, finnhub_api_key, cryptonews_token, header_written, sheet, tickers,
                   idx, ticker, rows_to_write, now, finnhub_result, cryptonews_result>>

\* The rest of compute_cryptonews_sentiment_for_ticker.
CryptoNewsHandle ==
    /\ pc = "cn_resp"
    /\ LET res == CryptoNewsScore(resp)
       IN  IF res.raised
           THEN /\ pc' = "crashed"
                /\ UNCHANGED cryptonews_result
           ELSE /\ pc' = "combine"
                /\ cryptonews_result' = res
    /\ UNCHANGED <<col_a, finnhub_api_key, cryptonews_token, header_written, sheet, tickers,
                   idx, ticker, rows_to_write, now, symbol_for_news, attempt, resp,
                   http_calls, sleeps, requested, finnhub_result>>

\* The append made only when the ticker has a score.
AppendRowIfScored(rows, c, ts, tk) ==
    IF c.score = None THEN rows ELSE Append(rows, Row(c.score, c.count, ts, tk))

\* if compound is None: rows_to_write.append(["", 0, timestamp]) else: ...
AppendRow(rows, c, ts, tk) ==
    IF c.score = None THEN Append(rows, Row(<<>>, 0, ts, tk))
    ELSE Append(rows, Row(c.score, c.count, ts, tk))

\* The combine step of compute_combined_sentiment_for_ticker, the timestamp
\* and the append of main's loop body.
CombineEmit ==
    /\ pc = "combine"
    /\ rows_to_write' = AppendRow(rows_to_write, Combine(finnhub_result, cryptonews_result),
                                  now, ticker)
    /\ pc' = "throttle"
    /\ UNCHANGED <<col_a, finnhub_api_key, cryptonews_token, header_written, sheet, tickers,
                   idx, ticker, now, symbol_for_news, attempt, resp, http_calls, sleeps,
                   requested, finnhub_result, cryptonews_result>>

\* time.sleep(SECONDS_BETWEEN_REQUESTS), then the next iteration.
Throttle ==
    /\ pc = "throttle"
    /\ now' = now + 1
    /\ idx' = idx + 1
    /\ pc' = "loop"
    /\ UNCHANGED <<col_a, finnhub_api_key, cryptonews_token, header_written, sheet, tickers,
                   ticker, rows_to_write, symbol_for_news, attempt, resp, http_calls, sleeps,
                   requested, finnhub_result, cryptonews_result>>

\* worksheet.update("P2:R<end_row>", rows_to_write)
WriteRows ==
    /\ pc = "loop"
    /\ idx > Len(tickers)
    /\ sheet' = [r \in SheetRows |->
                   IF r - 1 <= Len(rows_to_write) THEN <<rows_to_write[r - 1]>> ELSE sheet[r]]
    /\ pc' = "done"
    /\ UNCHANGED <<col_a, finnhub_api_key, cryptonews_token, header_written, tickers, idx,
                   ticker, rows_to_write, now, symbol_for_news, attempt, resp, http_calls,
                   sleeps, requested, finnhub_result, cryptonews_result>>

Next ==
    \/ EnsureHeaders
    \/ GetTickers
    \/ CheckCredentials
    \/ BeginTicker
    \/ FinnhubGet
    \/ FinnhubHandle
    \/ FinnhubSleep
    \/ CryptoNewsGet
    \/ CryptoNewsHandle
    \/ CombineEmit
    \/ Throttle
    \/ WriteRows

Spec == Init /\ [][Next]_vars

\* ------------------------------------------- normalize_ticker_for_news alone
InitNormalize ==
    /\ ticker \in StringsUpTo(MaxTickerLen)
    /\ pc = "normalize"
    /\ col_a = <<>>
    /\ finnhub_api_key = None
    /\ cryptonews_token = None
    /\ Idle

NormalizeCall ==
    /\ pc = "normalize"
    /\ symbol_for_news' = normalize_ticker_for_news(ticker)
    /\ pc' = "normalized"
    /\ UNCHANGED <<col_a, finnhub_api_key, cryptonews_token, header_written, sheet, tickers,
                   idx, ticker, rows_to_write, now, attempt, resp, http_calls, sleeps,
                   requested, finnhub_result, cryptonews_result>>

NextNormalize == NormalizeCall

SpecNormalize == InitNormalize /\ [][NextNormalize]_vars

\* ================================================================== claims
Missing(v) == v = <<>>

CredentialMissing == Missing(finnhub_api_key) \/ Missing(cryptonews_token)

Is429(r) == ~r.raised /\ r.status_code = 429

LastRow == rows_to_write[Len(rows_to_write)]

SheetUntouched == \A r \in SheetRows : sheet[r] = <<>>

\* The cells of column A below the header, by sheet row.
InputRows == 2..Len(col_a)

BlankCell(r) == Strip(col_a[r]) = <<>>

\* The longest prefix of t that holds no character of seps.
PrefixBefore(t, seps) ==
    LET clean == { k \in 0..Len(t) : \A i \in 1..k : t[i] \notin seps }
        cut   == CHOOSE k \in clean : \A j \in clean : j <= k
    IN  SubSeq(t, 1, cut)

\* A 2xx response whose JSON parses but has an unexpected shape: the top-level
\* value is not the container the provider documents, an element of the list
\* is no object, or a text field is no string.
UnexpectedShape(r) ==
    /\ ~r.raised
    /\ r.status_code = 200
    /\ r.body.t # "badjson"
    /\ \/ r.url = "finnhub" /\ r.body.t # "list"
       \/ r.url = "cryptonews" /\ (r.body.t # "dict" \/ r.body.data_t = "str")
       \/ \E i \in 1..Len(r.body.items) :
             LET a == r.body.items[i]
             IN  a.t # "obj" \/ \E k \in DOMAIN a \ {"t"} : a[k].t = "num"

\* C1: one Finnhub fetch issues at most two HTTP attempts; the second attempt
\* is issued only when the first response was a 429; and when both attempts
\* return 429 the fetch returns no data (None, 0) without a third attempt.
C1_AtMostTwoAttempts ==
    /\ http_calls <= 2
    /\ (pc = "fh_get" /\ http_calls >= 1) => (http_calls = 1 /\ Is429(resp))
    /\ (pc = "fh_resp" /\ http_calls = 2) => sleeps = 1
    /\ (pc = "cn_get" /\ Is429(resp)) =>
           (http_calls = 2 /\ finnhub_result = NoData)

C1_Witness ==
    /\ pc = "cn_get"
    /\ resp.url = "finnhub"
    /\ Is429(resp)
    /\ http_calls = 2
    /\ finnhub_result = NoData

\* C2: for Finnhub and for CryptoNews, a 429 on the first attempt is retried
\* exactly once, and the source is downgraded to no data only after the retry
\* has failed too: a source function never returns from a 429 it got on its
\* first and only attempt.
C2_RetryOn429EverySource ==
    /\ (pc = "cn_get" /\ Is429(resp)) => http_calls = 2
    /\ (pc = "combine" /\ Is429(resp)) => http_calls = 2

\* C3: with no blank cell among the input symbols and whatever the sources
\* answered (success, transport failure, non-2xx, 429 twice, empty payload, no
\* usable text), the finished run has written exactly one row per symbol, row
\* i for symbol i; a symbol whose sources all yielded no data gets the row
\* (empty score, 0, timestamp); the run is cut short only by a response of
\* unexpected shape.
C3_OneRowPerSymbol ==
    /\ (pc = "done" /\ \A r \in InputRows : ~BlankCell(r)) =>
          /\ \A r \in InputRows :
                /\ sheet[r] # <<>>
                /\ sheet[r][1].ticker = Upper(Strip(col_a[r]))
                /\ sheet[r][1].timestamp = r - 2
                /\ sheet[r][1].score = <<>> => sheet[r][1].count = 0
          /\ \A r \in SheetRows \ InputRows : sheet[r] = <<>>
    /\ (pc = "throttle" /\ finnhub_result = NoData /\ cryptonews_result = NoData) =>
          /\ Len(rows_to_write) = idx
          /\ LastRow = Row(<<>>, 0, now, ticker)
    /\ pc = "crashed" => UnexpectedShape(resp)

C3_Witness ==
    /\ pc = "done"
    /\ Len(col_a) = 3
    /\ \A r \in InputRows : ~BlankCell(r)
    /\ sheet[2] # <<>> /\ sheet[2][1].score = <<>> /\ sheet[2][1].count = 0
    /\ sheet[3] # <<>> /\ sheet[3][1].score # <<>>
    /\ sheet[2][1].ticker # sheet[3][1].ticker

\* C4: a blank entry of the input causes no provider request but still gets
\* an empty output row at its own position: the finished run has as many rows
\* as input entries, and every symbol's row sits at that symbol's position.
C4_BlankEntryKeepsItsRow ==
    pc = "done" =>
        \A r \in InputRows :
            /\ sheet[r] # <<>>
            /\ BlankCell(r) => (sheet[r][1].score = <<>> /\ sheet[r][1].count = 0)
            /\ ~BlankCell(r) => sheet[r][1].ticker = Upper(Strip(col_a[r]))

\* C5 as stated: for every input symbol list, the empty one included, a
\* missing Finnhub key or CryptoNews token ends the run in the fatal error
\* state: it never ends normally, no request is issued, no row is emitted and
\* no row is written.
C5_FatalForEveryList ==
    CredentialMissing =>
        /\ pc \in {"start", "get_tickers", "check_credentials", "fatal"}
        /\ requested = {}
        /\ rows_to_write = <<>>
        /\ SheetUntouched

\* C5 as amended: when the input has at least one non-blank symbol, a missing
\* Finnhub key or CryptoNews token ends the run in the fatal error state
\* before any symbol is processed (no request issued, no row emitted, no result
\* row written; only the header cells have been written by then).  When the
\* input has no non-blank symbol the run ends normally without looking at the
\* credentials.
C5_FatalWhenSymbols ==
    CredentialMissing =>
        /\ requested = {}
        /\ rows_to_write = <<>>
        /\ SheetUntouched
        /\ pc \in {"start", "get_tickers", "check_credentials", "fatal", "done"}
        /\ pc = "done" => \A r \in InputRows : BlankCell(r)
        /\ pc = "fatal" => (header_written /\ \E r \in InputRows : ~BlankCell(r))
        /\ pc \notin {"fatal", "done"} => ENABLED Next

C5_Witness ==
    /\ pc = "fatal"
    /\ ~Missing(finnhub_api_key)
    /\ Missing(cryptonews_token)
    /\ tickers # <<>>
    /\ header_written
    /\ requested = {}

\* C6: the combine step returns (absent, 0) exactly when no source has a
\* defined score; otherwise totalCount is the sum of the counts of the sources
\* with a defined score and the score is sum(score_i * count_i) / totalCount
\* over those sources, rounded once to 4 places; with one contributing source
\* the combined score is that source's score.
C6_WeightedMean ==
    pc = "throttle" =>
        LET src     == <<finnhub_result, cryptonews_result>>
            defined == { i \in 1..2 : src[i].score # None }
            weight(i) == IF i \in defined THEN src[i].count ELSE 0
            term(i)   == IF i \in defined THEN src[i].score[1] * src[i].count ELSE 0
            total   == weight(1) + weight(2)
        IN  /\ LastRow.score = <<>> <=> defined = {}
            /\ LastRow.count = total
            /\ defined # {} => LastRow.score = <<RoundDiv(term(1) + term(2), total)>>
            /\ \A i \in defined : defined = {i} => LastRow.score = src[i].score

C6_Witness ==
    /\ pc = "throttle"
    /\ finnhub_result = Result(<<-3000>>, 1)
    /\ cryptonews_result = Result(<<5000>>, 2)
    /\ LastRow.score = <<2333>>
    /\ LastRow.count = 3

\* C7 as stated: the result is the upper-cased substring before the first "/"
\* if the string contains "/"; else the upper-cased substring before the first
\* "-" if it contains "-"; otherwise the upper-cased string. The "-" rule is
\* applied only when the string contains no "/".
C7_DashRuleOnlyWithoutSlash ==
    pc = "normalized" =>
        LET t == Upper(ticker)
        IN  symbol_for_news =
                IF Contains(t, "/") THEN PrefixBefore(t, {"/"})
                ELSE IF Contains(t, "-") THEN PrefixBefore(t, {"-"})
                ELSE t

\* C7 as amended: the result is the upper-cased substring before the first
\* occurrence of either separator, "/" or "-", whichever comes first (the "-"
\* rule is applied to what the "/" rule left), and the whole upper-cased
\* string when it holds neither.
C7_CutAtFirstSeparator ==
    pc = "normalized" => symbol_for_news = PrefixBefore(Upper(ticker), {"/", "-"})

C7_Witness ==
    /\ pc = "normalized"
    /\ ticker = <<"a", "-", "B", "/">>
    /\ symbol_for_news = <<"A">>

\* C8: for Finnhub and for CryptoNews, only the first min(n, limit) articles
\* of a response are scored, so a source's evidence count never exceeds its cap.
C8_CountWithinCap ==
    /\ pc = "cn_get" => finnhub_result.count <= MAX_ARTICLES_PER_TICKER
    /\ pc = "combine" => cryptonews_result.count <= CRYPTONEWS_MAX_ITEMS_PER_TICKER

\* C9: no per-source error escapes a symbol's processing step: whatever a
\* provider returns, a 2xx response of unexpected shape included, the source
\* function returns a score or no data and never raises.
C9_NeverRaises == pc # "crashed"

\* C10: in one Finnhub fetch the rate-limit sleep happens at most once, every
\* sleep is followed by a retry attempt, and a 429 on the second attempt gives
\* up without sleeping again.
C10_SleepAtMostOnce ==
    /\ sleeps <= 1
    /\ pc = "cn_get" => sleeps < http_calls

====
